---- MODULE Spec2Model ----
(***************************************************************************)
(* AzureTableStorageService (the two memoized client handles) and          *)
(* AzureTableStorageRepository<T> (createTableIfNotExists, find, findAll,  *)
(* create, update, delete and the REST error classifier handleRestErrors). *)
(*                                                                         *)
(* Strings are sequences of tokens: a token is one character of a backend  *)
(* supplied string ("{", "x", "a", "b", "\n"), a table name, or one literal*)
(* fragment of a message template of the source.                           *)
(*                                                                         *)
(* Spec follows one caller's operations one after the other, each from its *)
(* call through its await points to its return or throw. SpecConn follows  *)
(* the accessor reads of several operations in flight at once. SpecClassify*)
(* applies handleRestErrors to every error of the bounded input set.       *)
(***************************************************************************)
EXTENDS Integers, Sequences, FiniteSets, TLC

\* ---------------------------------------------------------------- bounds
MaxMsgLen == 2
MaxValLen == 5
MaxEntities == 2
MaxPage == 2
NumCallers == 3

\* ---------------------------------------------------------------- domains
TableNames == {"t1", "t2"}
PKeys == {"p1", "p2"}
RKeys == {"r1", "r2"}
Datas == {"d1"}
NL == "\n"
MsgChars == {"{", "x"}
ValChars == {"a", "b", NL}
KnownCodes == {"TableAlreadyExists", "TableNotFound", "ResourceNotFound",
               "InvalidInput", "TableBeingDeleted", "EntityAlreadyExists"}
Codes == KnownCodes \cup {"AuthorizationFailure"}
StatusCodes == {404, 409}

SeqsUpTo(S, n) == UNION {[1..k -> S] : k \in 0..n}

\* ---------------------------------------------------------------- values
\* RestError of @azure/data-tables as the repository reads it: message,
\* statusCode, details.odataError.code, details.odataError.message.value.
RestErrorOf(m, c, s, v) ==
  [kind |-> "RestError", message |-> m, code |-> c, statusCode |-> s, value |-> v]
NoError == [kind |-> "none"]
\* new CustomError(message, code, statusCode)
CustomError(m, c, s) ==
  [kind |-> "CustomError", message |-> m, code |-> c, statusCode |-> s]
\* new Error(message)
PlainError(m) == [kind |-> "Error", message |-> m]

AllRestErrors ==
  {RestErrorOf(m, c, s, v) : m \in SeqsUpTo(MsgChars, MaxMsgLen), c \in Codes,
                             s \in StatusCodes, v \in SeqsUpTo(ValChars, MaxValLen)}

\* ---------------------------------------------------------------- state
VARIABLES
  tableName,            \* this.tableName of service and repository
  optCreate,            \* this.options.createTableIfNotExists
  connValid,            \* whether AZURE_STORAGE_CONNECTION_STRING parses
  tableServiceClient,   \* AzureTableStorageService.tableServiceClient (0: unset)
  tableClient,          \* AzureTableStorageService.tableClient (0: unset)
  svcBuilt,             \* number of TableServiceClient.fromConnectionString results
  entBuilt,             \* number of TableClient.fromConnectionString results
  callers,              \* operations in flight that read an accessor
  tables,               \* backend: names of the tables that exist
  rows,                 \* backend: entities of table tableName, in listing order
  op, pc,               \* the repository operation in flight and its await point
  argTable, argPk, argRk, argEntity,   \* its arguments
  sent,                 \* the entity handed to createEntity / updateEntity
  calls,                \* the backend calls the operation has made, in order
  pageSize, cursor, entities,          \* findAll: the listing and the array
  restError,            \* the error caught by the operation's catch block
  status, retval, thrown,              \* how the operation ended
  classified,           \* result of handleRestErrors taken alone
  prevCT,               \* table name of an immediately preceding successful createTableIfNotExists
  fresh                 \* keys written by a successful create and not written since

connVars == <<tableServiceClient, tableClient, svcBuilt, entBuilt>>
cfgVars == <<tableName, optCreate, connValid>>
backendVars == <<tables, rows>>
opVars == <<op, pc, argTable, argPk, argRk, argEntity, sent, calls, pageSize,
            cursor, entities, restError, status, retval, thrown>>
ghostVars == <<prevCT, fresh>>
vars == <<cfgVars, connVars, callers, backendVars, opVars, classified, ghostVars>>

\* ---------------------------------------------------------------- classifier
StartsWithBrace(m) == Len(m) > 0 /\ m[1] = "{"

\* String.prototype.split('\n')
RECURSIVE Split(_)
Split(s) ==
  IF \A i \in 1..Len(s) : s[i] # NL
  THEN <<s>>
  ELSE LET i == CHOOSE j \in 1..Len(s) : s[j] = NL /\ \A k \in 1..(j-1) : s[k] # NL
       IN <<SubSeq(s, 1, i-1)>> \o Split(SubSeq(s, i+1, Len(s)))

RECURSIVE AppendLines(_, _)
AppendLines(acc, lines) ==
  IF lines = <<>> THEN acc ELSE AppendLines(acc \o Head(lines), Tail(lines))

RECURSIVE AppendLinesReversed(_, _)
AppendLinesReversed(acc, lines) ==
  IF lines = <<>> THEN acc
  ELSE AppendLinesReversed(acc \o lines[Len(lines)], SubSeq(lines, 1, Len(lines)-1))

InvalidInputMessageReversed(value) ==
  AppendLinesReversed(<<"Error creating entity:">>, Split(value))

\* case 'InvalidInput': the prefix, then every line of the detail message appended
InvalidInputMessage(value) ==
  AppendLines(<<"Error creating entity:">>, Split(value))

TemplateMessageSwapped(code, name, error) ==
  CASE code = "TableAlreadyExists" ->
         <<"Error creating entity. Table ", name, " Not Found. Is it created?">>
    [] code = "TableNotFound" ->
         <<"Error creating table. Table ", name, " already exists.">>
    [] code = "ResourceNotFound" -> <<"Error processing entity. Entity not found.">>
    [] code = "InvalidInput" -> InvalidInputMessage(error.value)
    [] code = "TableBeingDeleted" ->
         <<"Error creating entity. Table ", name, " is being deleted. Try again later.">>
    [] code = "EntityAlreadyExists" ->
         <<"Error creating entity. Entity with the same partitionKey and rowKey already exists.">>
    [] OTHER -> error.message

TemplateMessageNoDefault(code, name, error) ==
  CASE code = "TableAlreadyExists" ->
         <<"Error creating table. Table ", name, " already exists.">>
    [] code = "TableNotFound" ->
         <<"Error creating entity. Table ", name, " Not Found. Is it created?">>
    [] code = "ResourceNotFound" -> <<"Error processing entity. Entity not found.">>
    [] code = "InvalidInput" -> InvalidInputMessage(error.value)
    [] code = "TableBeingDeleted" ->
         <<"Error creating entity. Table ", name, " is being deleted. Try again later.">>
    [] code = "EntityAlreadyExists" ->
         <<"Error creating entity. Entity with the same partitionKey and rowKey already exists.">>
    [] OTHER -> <<"Unknown error">>

\* the switch over errorCode
TemplateMessage(code, name, error) ==
  CASE code = "TableAlreadyExists" ->
         <<"Error creating table. Table ", name, " already exists.">>
    [] code = "TableNotFound" ->
         <<"Error creating entity. Table ", name, " Not Found. Is it created?">>
    [] code = "ResourceNotFound" -> <<"Error processing entity. Entity not found.">>
    [] code = "InvalidInput" -> InvalidInputMessage(error.value)
    [] code = "TableBeingDeleted" ->
         <<"Error creating entity. Table ", name, " is being deleted. Try again later.">>
    [] code = "EntityAlreadyExists" ->
         <<"Error creating entity. Entity with the same partitionKey and rowKey already exists.">>
    [] OTHER -> error.message

handleRestErrorsRethrows(error, name) ==
  IF ~StartsWithBrace(error.message)
  THEN [how |-> "throw", value |-> error]
  ELSE [how |-> "return",
        value |-> CustomError(TemplateMessage(error.code, name, error),
                              error.code, error.statusCode)]

\* handleRestErrors: [how |-> "throw"] when the function itself throws,
\* [how |-> "return"] when it returns the CustomError (which every caller throws).
handleRestErrors(error, name) ==
  IF ~StartsWithBrace(error.message)
  THEN [how |-> "throw", value |-> PlainError(error.message)]
  ELSE [how |-> "return",
        value |-> CustomError(TemplateMessage(error.code, name, error),
                              error.code, error.statusCode)]

\* ---------------------------------------------------------------- classifier alone
OpIdle ==
  /\ op = "none" /\ pc = "idle"
  /\ argTable = "" /\ argPk = "" /\ argRk = "" /\ argEntity = <<>> /\ sent = <<>>
  /\ calls = <<>> /\ pageSize = 0 /\ cursor = 0 /\ entities = <<>>
  /\ status = "none" /\ retval = [t |-> "none"] /\ thrown = NoError

InitClassify ==
  /\ tableName \in TableNames
  /\ optCreate = FALSE /\ connValid = TRUE
  /\ tableServiceClient = 0 /\ tableClient = 0 /\ svcBuilt = 0 /\ entBuilt = 0
  /\ callers = [p \in 1..NumCallers |-> [pc |-> "idle", which |-> "", got |-> 0]]
  /\ tables = {} /\ rows = <<>>
  /\ OpIdle
  /\ restError \in AllRestErrors
  /\ classified = [how |-> "none"]
  /\ prevCT = "" /\ fresh = {}

Classify ==
  /\ classified.how = "none"
  /\ classified' = handleRestErrors(restError, tableName)
  /\ UNCHANGED <<cfgVars, connVars, callers, backendVars, opVars, ghostVars>>

NextClassify == Classify

SpecClassify == InitClassify /\ [][NextClassify]_vars


\* ---------------------------------------------------------------- handles
\* The getters of AzureTableStorageService run to completion: they hold no
\* await, and fromConnectionString is synchronous. A handle is named by the
\* ordinal of the construction that produced it.
ServiceGetterThrows == tableServiceClient = 0 /\ ~connValid
EntityGetterThrows == tableClient = 0 /\ ~connValid

tableServiceClientInstanceNoCache ==
  /\ tableServiceClient' = svcBuilt + 1
  /\ svcBuilt' = svcBuilt + 1

\* get tableServiceClientInstance(), when fromConnectionString does not throw
tableServiceClientInstance ==
  /\ tableServiceClient' = IF tableServiceClient # 0 THEN tableServiceClient
                           ELSE svcBuilt + 1
  /\ svcBuilt' = IF tableServiceClient # 0 THEN svcBuilt ELSE svcBuilt + 1

\* get tableClientInstance(), when fromConnectionString does not throw
tableClientInstance ==
  /\ tableClient' = IF tableClient # 0 THEN tableClient ELSE entBuilt + 1
  /\ entBuilt' = IF tableClient # 0 THEN entBuilt ELSE entBuilt + 1

\* ---------------------------------------------------------------- accessors under interleaving
\* Each caller is a repository operation in flight: it reads one accessor in
\* its synchronous part, awaits the backend, resumes and returns.
IdleCaller == [pc |-> "idle", which |-> "", got |-> 0]

InitConn ==
  /\ tableName = "t1" /\ optCreate = FALSE
  /\ connValid \in BOOLEAN
  /\ tableServiceClient = 0 /\ tableClient = 0 /\ svcBuilt = 0 /\ entBuilt = 0
  /\ callers = [p \in 1..NumCallers |-> IdleCaller]
  /\ tables = {} /\ rows = <<>>
  /\ OpIdle /\ restError = NoError
  /\ classified = [how |-> "none"]
  /\ prevCT = "" /\ fresh = {}

nonConn == <<cfgVars, backendVars, opVars, classified, ghostVars>>

CallerReadsService(p) ==
  /\ callers[p].pc = "idle"
  /\ UNCHANGED <<tableClient, entBuilt>>
  /\ IF ServiceGetterThrows
     THEN /\ UNCHANGED <<tableServiceClient, svcBuilt>>
          /\ callers' = [callers EXCEPT ![p] = [pc |-> "done", which |-> "service", got |-> 0]]
     ELSE /\ tableServiceClientInstance
          /\ callers' = [callers EXCEPT ![p] =
                           [pc |-> "awaiting", which |-> "service", got |-> tableServiceClient']]
  /\ UNCHANGED nonConn

CallerReadsEntity(p) ==
  /\ callers[p].pc = "idle"
  /\ UNCHANGED <<tableServiceClient, svcBuilt>>
  /\ IF EntityGetterThrows
     THEN /\ UNCHANGED <<tableClient, entBuilt>>
          /\ callers' = [callers EXCEPT ![p] = [pc |-> "done", which |-> "entity", got |-> 0]]
     ELSE /\ tableClientInstance
          /\ callers' = [callers EXCEPT ![p] =
                           [pc |-> "awaiting", which |-> "entity", got |-> tableClient']]
  /\ UNCHANGED nonConn

CallerResumes(p) ==
  /\ callers[p].pc = "awaiting"
  /\ callers' = [callers EXCEPT ![p].pc = "done"]
  /\ UNCHANGED <<connVars, nonConn>>

CallerReturns(p) ==
  /\ callers[p].pc = "done"
  /\ callers' = [callers EXCEPT ![p] = IdleCaller]
  /\ UNCHANGED <<connVars, nonConn>>

NextConn ==
  \E p \in 1..NumCallers :
    \/ CallerReadsService(p)
    \/ CallerReadsEntity(p)
    \/ CallerResumes(p)
    \/ CallerReturns(p)

SpecConn == InitConn /\ [][NextConn]_vars


\* ---------------------------------------------------------------- entities
Fields == {"partitionKey", "rowKey", "data"}
MetadataFields == {"etag"}

\* the object with fields fs, taking each field's value from (p, r, d)
Obj(fs, p, r, d) ==
  [f \in fs |-> CASE f = "partitionKey" -> p [] f = "rowKey" -> r [] OTHER -> d]

\* objects a caller may pass: any subset of the fields present
Patches == {Obj(fs, p, r, d) : fs \in SUBSET Fields, p \in PKeys, r \in RKeys, d \in Datas}
\* entities a caller creates: the composite key and the data field
KeyedEntities == {e \in Patches : DOMAIN e = Fields}

Null == [t |-> "null"]
True == [t |-> "bool", v |-> TRUE]
EntityValue(e) == [t |-> "entity", v |-> e]
ListValue(l) == [t |-> "list", v |-> l]
DeleteResponse == [t |-> "response"]

\* ---------------------------------------------------------------- backend (TableBackend)
\* What the table store does with a call is outside the repository; the model
\* gives it the behaviour of the Azure Tables service: one error code per
\* failed precondition, and a failure of any call for reasons of its own.
HasKey(pk, rk) == \E i \in 1..Len(rows) : rows[i].partitionKey = pk /\ rows[i].rowKey = rk
IndexOf(pk, rk) == CHOOSE i \in 1..Len(rows) : rows[i].partitionKey = pk /\ rows[i].rowKey = rk

\* a stored entity as the backend returns it: its fields plus backend metadata
Raw(e) == [f \in DOMAIN e \cup MetadataFields |-> IF f \in MetadataFields THEN "W/1" ELSE e[f]]
\* the result of a write: response headers only
Headers == [f \in MetadataFields |-> "W/1"]
EmptyRaw == [f \in {} |-> "W/1"]

\* updateEntity merges the fields sent into the stored entity
Merge(old, new) == [f \in DOMAIN old \cup DOMAIN new |-> IF f \in DOMAIN new THEN new[f] ELSE old[f]]

StatusOf(code) ==
  CASE code \in {"TableAlreadyExists", "EntityAlreadyExists", "TableBeingDeleted"} -> 409
    [] code = "AuthorizationFailure" -> 403
    [] code = "InvalidInput" -> 400
    [] OTHER -> 404

\* the errors a call raises for the codes given: with the JSON body as message
\* or with a message that is no JSON
Raised(codes) ==
  {RestErrorOf(m, c, StatusOf(c), <<"a", NL, "b">>) : m \in {<<"{", "x">>, <<"x">>}, c \in codes}

\* a failure for reasons other than the call's precondition
Faults == {"AuthorizationFailure"}

\* what fromConnectionString throws on a malformed connection string
ConnError == PlainError(<<"x">>)

\* AzureEntityMapper.serialize: drops the backend metadata, keeps the rest
Serialize(raw) == [f \in DOMAIN raw \ MetadataFields |-> raw[f]]

\* ---------------------------------------------------------------- repository
Min(a, b) == IF a < b THEN a ELSE b

Returns(v) ==
  /\ pc' = "done" /\ status' = "returned" /\ retval' = v
  /\ thrown' = NoError /\ restError' = NoError

\* catch (error) { throw await this.handleRestErrors(error) }
Throws(e) ==
  /\ pc' = "done" /\ status' = "threw" /\ retval' = [t |-> "none"]
  /\ restError' = e
  /\ thrown' = handleRestErrors(e, tableName).value

Awaits(p) ==
  /\ pc' = p
  /\ UNCHANGED <<status, retval, thrown, restError>>

Init ==
  /\ tableName = "t1"
  /\ optCreate \in BOOLEAN
  /\ connValid \in BOOLEAN
  /\ tableServiceClient = 0 /\ tableClient = 0 /\ svcBuilt = 0 /\ entBuilt = 0
  /\ callers = [p \in 1..NumCallers |-> IdleCaller]
  /\ tables \in {{}, {"t1"}} /\ rows = <<>>
  /\ OpIdle /\ restError = NoError
  /\ classified = [how |-> "none"]
  /\ prevCT = "" /\ fresh = {}

outside == <<cfgVars, callers, classified>>

\* A backend call's possible answers: [err, result, tables, rows], err = NoError
\* when the call succeeds, tables and rows the backend's state after it.
Answer(err, result, t, r) == [err |-> err, result |-> result, tables |-> t, rows |-> r]
Failures(codes) == {Answer(e, EmptyRaw, tables, rows) : e \in Raised(codes \cup Faults)}

\* createTable(name): an existing table is reported or, by a client that
\* swallows the report, passed over
CreateTableAnswers(name) ==
  {Answer(NoError, EmptyRaw, tables \cup {name}, rows)}
    \cup Failures(IF name \in tables THEN {"TableAlreadyExists"} ELSE {})

\* createTableIfNotExists(tableName), up to the await of createTable
CreateTableIfNotExistsCall(name) ==
  /\ pc = "idle"
  /\ op' = "createTableIfNotExists" /\ argTable' = name
  /\ UNCHANGED <<tableClient, entBuilt>>
  /\ IF ServiceGetterThrows
     THEN /\ UNCHANGED <<tableServiceClient, svcBuilt, calls>>
          /\ Throws(ConnError)
     ELSE /\ tableServiceClientInstance
          /\ calls' = <<"createTable">>
          /\ Awaits("awaitCreateTable")
  /\ UNCHANGED <<argPk, argRk, argEntity, sent, pageSize, cursor, entities>>
  /\ UNCHANGED <<outside, backendVars, ghostVars>>

\* createTableIfNotExists resumes with the backend's answer
CreateTableIfNotExistsResume ==
  /\ pc = "awaitCreateTable" /\ op = "createTableIfNotExists"
  /\ \E a \in CreateTableAnswers(argTable) :
       /\ tables' = a.tables /\ rows' = a.rows
       /\ IF a.err = NoError THEN Returns(True) ELSE Throws(a.err)
  /\ UNCHANGED <<op, argTable, argPk, argRk, argEntity, sent, calls, pageSize, cursor, entities>>
  /\ UNCHANGED <<outside, connVars, ghostVars>>


\* getEntity(pk, rk): the stored entity; for a key that names none, the
\* service's ResourceNotFound, or from a backend that reports absence in
\* band, a result that carries no entity field
GetEntityAnswers(pk, rk) ==
  IF tableName \notin tables THEN Failures({"TableNotFound"})
  ELSE IF HasKey(pk, rk)
       THEN {Answer(NoError, Raw(rows[IndexOf(pk, rk)]), tables, rows)} \cup Failures({})
       ELSE {Answer(NoError, Headers, tables, rows)} \cup Failures({"ResourceNotFound"})

\* one page of listEntities from position cur: at most ps entities
ListPageAnswers(cur, ps) ==
  IF tableName \notin tables THEN Failures({"TableNotFound"})
  ELSE {Answer(NoError,
               [i \in 1..(Min(cur + ps, Len(rows)) - cur) |-> Raw(rows[cur + i])],
               tables, rows)} \cup Failures({})

\* createEntity(e)
CreateEntityAnswers(e) ==
  IF tableName \notin tables THEN Failures({"TableNotFound"})
  ELSE IF HasKey(e.partitionKey, e.rowKey) THEN Failures({"EntityAlreadyExists"})
  ELSE IF Len(rows) >= MaxEntities THEN Failures({})
  ELSE {Answer(NoError, Headers, tables, Append(rows, e))} \cup Failures({})

\* updateEntity(e), in the client's default mode (merge)
UpdateEntityAnswers(e) ==
  IF tableName \notin tables THEN Failures({"TableNotFound"})
  ELSE IF ~HasKey(e.partitionKey, e.rowKey) THEN Failures({"ResourceNotFound"})
  ELSE LET i == IndexOf(e.partitionKey, e.rowKey)
       IN {Answer(NoError, Headers, tables, [rows EXCEPT ![i] = Merge(rows[i], e)])}
            \cup Failures({})

\* deleteEntity(pk, rk)
DeleteEntityAnswers(pk, rk) ==
  IF tableName \notin tables THEN Failures({"TableNotFound"})
  ELSE IF ~HasKey(pk, rk) THEN Failures({"ResourceNotFound"})
  ELSE LET i == IndexOf(pk, rk)
       IN {Answer(NoError, DeleteResponse, tables,
                  SubSeq(rows, 1, i-1) \o SubSeq(rows, i+1, Len(rows)))}
            \cup Failures({})

\* the entries of fresh that a write to key (pk, rk) leaves standing
Untouched(pk, rk) == {e \in fresh : ~(e.partitionKey = pk /\ e.rowKey = rk)}

\* ---- find
FindResultNegated(raw) ==
  LET mappedEntity == Serialize(raw)
  IN IF DOMAIN mappedEntity # {} THEN Null ELSE EntityValue(mappedEntity)

\* find: what it returns for the result of getEntity
FindResult(raw) ==
  LET mappedEntity == Serialize(raw)
  IN IF DOMAIN mappedEntity = {} THEN Null ELSE EntityValue(mappedEntity)

\* find(partitionKey, rowKey), up to the await of getEntity
FindCall(pk, rk) ==
  /\ pc = "idle"
  /\ op' = "find" /\ argPk' = pk /\ argRk' = rk
  /\ UNCHANGED <<tableServiceClient, svcBuilt>>
  /\ IF EntityGetterThrows
     THEN /\ UNCHANGED <<tableClient, entBuilt, calls>>
          /\ Throws(ConnError)
     ELSE /\ tableClientInstance
          /\ calls' = <<"getEntity">>
          /\ Awaits("awaitGetEntity")
  /\ UNCHANGED <<argTable, argEntity, sent, pageSize, cursor, entities>>
  /\ UNCHANGED <<outside, backendVars, ghostVars>>

FindResume ==
  /\ pc = "awaitGetEntity"
  /\ \E a \in GetEntityAnswers(argPk, argRk) :
       /\ tables' = a.tables /\ rows' = a.rows
       /\ IF a.err = NoError THEN Returns(FindResult(a.result)) ELSE Throws(a.err)
  /\ UNCHANGED <<op, argTable, argPk, argRk, argEntity, sent, calls, pageSize, cursor, entities>>
  /\ UNCHANGED <<outside, connVars, ghostVars>>

\* ---- findAll
\* findAll(), up to the first await of the listing's iterator
FindAllCall ==
  /\ pc = "idle"
  /\ op' = "findAll"
  /\ UNCHANGED <<tableServiceClient, svcBuilt>>
  /\ IF EntityGetterThrows
     THEN /\ UNCHANGED <<tableClient, entBuilt, calls, pageSize>>
          /\ Throws(ConnError)
     ELSE /\ tableClientInstance
          /\ calls' = <<"listEntities">>
          /\ pageSize' \in 1..MaxPage
          /\ Awaits("awaitList")
  /\ cursor' = 0 /\ entities' = <<>>
  /\ UNCHANGED <<argTable, argPk, argRk, argEntity, sent>>
  /\ UNCHANGED <<outside, backendVars, ghostVars>>

FindAllPageKeepsLast ==
  /\ pc = "awaitList"
  /\ \E a \in ListPageAnswers(cursor, pageSize) :
       /\ tables' = a.tables /\ rows' = a.rows
       /\ IF a.err # NoError
          THEN Throws(a.err) /\ UNCHANGED <<cursor, entities>>
          ELSE /\ entities' = a.result
               /\ cursor' = cursor + Len(a.result)
               /\ IF cursor' >= Len(rows) THEN Returns(ListValue(entities'))
                  ELSE Awaits("awaitList")
  /\ UNCHANGED <<op, argTable, argPk, argRk, argEntity, sent, calls, pageSize>>
  /\ UNCHANGED <<outside, connVars, ghostVars>>

\* the for-await loop: one page arrives and its entities are pushed, or the
\* listing raises
FindAllPage ==
  /\ pc = "awaitList"
  /\ \E a \in ListPageAnswers(cursor, pageSize) :
       /\ tables' = a.tables /\ rows' = a.rows
       /\ IF a.err # NoError
          THEN Throws(a.err) /\ UNCHANGED <<cursor, entities>>
          ELSE /\ entities' = entities \o a.result
               /\ cursor' = cursor + Len(a.result)
               /\ IF cursor' >= Len(rows) THEN Returns(ListValue(entities'))
                  ELSE Awaits("awaitList")
  /\ UNCHANGED <<op, argTable, argPk, argRk, argEntity, sent, calls, pageSize>>
  /\ UNCHANGED <<outside, connVars, ghostVars>>


\* ---- create
WriteEntityKeysOnly(e, made) ==
  IF EntityGetterThrows
  THEN /\ UNCHANGED <<tableClient, entBuilt, sent>>
       /\ calls' = made
       /\ Throws(ConnError)
  ELSE /\ tableClientInstance
       /\ sent' = [f \in {"partitionKey", "rowKey"} |-> e[f]]
       /\ calls' = Append(made, "createEntity")
       /\ Awaits("awaitCreateEntity")

\* create: the try block, up to the await of createEntity
WriteEntity(e, made) ==
  IF EntityGetterThrows
  THEN /\ UNCHANGED <<tableClient, entBuilt, sent>>
       /\ calls' = made
       /\ Throws(ConnError)
  ELSE /\ tableClientInstance
       /\ sent' = e
       /\ calls' = Append(made, "createEntity")
       /\ Awaits("awaitCreateEntity")

CreateCallIgnoresOption(e) ==
  /\ pc = "idle"
  /\ op' = "create" /\ argEntity' = e
  /\ UNCHANGED <<tableServiceClient, svcBuilt>>
  /\ WriteEntity(e, <<>>)
  /\ UNCHANGED <<argTable, argPk, argRk, pageSize, cursor, entities>>
  /\ UNCHANGED <<outside, backendVars, ghostVars>>

\* create(entity), up to its first await: of createTableIfNotExists when the
\* option is set, of createEntity when it is not
CreateCall(e) ==
  /\ pc = "idle"
  /\ op' = "create" /\ argEntity' = e
  /\ IF optCreate
     THEN /\ UNCHANGED <<tableClient, entBuilt, sent>>
          /\ IF ServiceGetterThrows
             THEN /\ UNCHANGED <<tableServiceClient, svcBuilt, calls>>
                  /\ Throws(ConnError)
             ELSE /\ tableServiceClientInstance
                  /\ calls' = <<"createTable">>
                  /\ Awaits("awaitCreateTable")
     ELSE /\ UNCHANGED <<tableServiceClient, svcBuilt>>
          /\ WriteEntity(e, <<>>)
  /\ UNCHANGED <<argTable, argPk, argRk, pageSize, cursor, entities>>
  /\ UNCHANGED <<outside, backendVars, ghostVars>>

CreateProvisionedSwallows ==
  /\ pc = "awaitCreateTable" /\ op = "create"
  /\ \E a \in CreateTableAnswers(tableName) :
       /\ tables' = a.tables /\ rows' = a.rows
       /\ WriteEntity(argEntity, calls)
  /\ UNCHANGED <<tableServiceClient, svcBuilt>>
  /\ UNCHANGED <<op, argTable, argPk, argRk, argEntity, pageSize, cursor, entities>>
  /\ UNCHANGED <<outside, ghostVars>>

\* create resumes from createTableIfNotExists(this.tableName): that call
\* returned true or threw; a null result would end create with null
CreateProvisioned ==
  /\ pc = "awaitCreateTable" /\ op = "create"
  /\ \E a \in CreateTableAnswers(tableName) :
       /\ tables' = a.tables /\ rows' = a.rows
       /\ IF a.err # NoError
          THEN Throws(a.err) /\ UNCHANGED <<tableClient, entBuilt, sent, calls>>
          ELSE LET res == True
               IN IF res = Null
                  THEN Returns(Null) /\ UNCHANGED <<tableClient, entBuilt, sent, calls>>
                  ELSE WriteEntity(argEntity, calls)
  /\ UNCHANGED <<tableServiceClient, svcBuilt>>
  /\ UNCHANGED <<op, argTable, argPk, argRk, argEntity, pageSize, cursor, entities>>
  /\ UNCHANGED <<outside, ghostVars>>

CreateResume ==
  /\ pc = "awaitCreateEntity"
  /\ \E a \in CreateEntityAnswers(sent) :
       /\ tables' = a.tables /\ rows' = a.rows
       /\ IF a.err = NoError
          THEN Returns(EntityValue(Serialize(a.result))) /\ fresh' = fresh \cup {argEntity}
          ELSE Throws(a.err) /\ UNCHANGED fresh
  /\ UNCHANGED <<op, argTable, argPk, argRk, argEntity, sent, calls, pageSize, cursor, entities>>
  /\ UNCHANGED <<outside, connVars, prevCT>>

\* ---- update
InjectKeysAlways(pk, rk, entity) ==
  [f \in DOMAIN entity \cup {"rowKey", "partitionKey"} |->
     CASE f = "rowKey" -> rk
       [] f = "partitionKey" -> pk
       [] OTHER -> entity[f]]

\* the two hasOwnProperty tests of update and their assignments
InjectKeys(pk, rk, entity) ==
  [f \in DOMAIN entity \cup {"rowKey", "partitionKey"} |->
     CASE f = "rowKey" /\ f \notin DOMAIN entity -> rk
       [] f = "partitionKey" /\ f \notin DOMAIN entity -> pk
       [] OTHER -> entity[f]]

\* update(partitionKey, rowKey, entity), up to the await of updateEntity
UpdateCall(pk, rk, e) ==
  /\ pc = "idle"
  /\ op' = "update" /\ argPk' = pk /\ argRk' = rk /\ argEntity' = e
  /\ UNCHANGED <<tableServiceClient, svcBuilt>>
  /\ IF EntityGetterThrows
     THEN /\ UNCHANGED <<tableClient, entBuilt, sent, calls>>
          /\ Throws(ConnError)
     ELSE /\ tableClientInstance
          /\ sent' = InjectKeys(pk, rk, e)
          /\ calls' = <<"updateEntity">>
          /\ Awaits("awaitUpdateEntity")
  /\ UNCHANGED <<argTable, pageSize, cursor, entities>>
  /\ UNCHANGED <<outside, backendVars, ghostVars>>

UpdateResume ==
  /\ pc = "awaitUpdateEntity"
  /\ \E a \in UpdateEntityAnswers(sent) :
       /\ tables' = a.tables /\ rows' = a.rows
       /\ IF a.err = NoError
          THEN /\ Returns(EntityValue(Serialize(a.result)))
               /\ fresh' = Untouched(sent.partitionKey, sent.rowKey)
          ELSE Throws(a.err) /\ UNCHANGED fresh
  /\ UNCHANGED <<op, argTable, argPk, argRk, argEntity, sent, calls, pageSize, cursor, entities>>
  /\ UNCHANGED <<outside, connVars, prevCT>>

\* ---- delete
\* delete(partitionKey, rowKey), up to the await of deleteEntity
DeleteCall(pk, rk) ==
  /\ pc = "idle"
  /\ op' = "delete" /\ argPk' = pk /\ argRk' = rk
  /\ UNCHANGED <<tableServiceClient, svcBuilt>>
  /\ IF EntityGetterThrows
     THEN /\ UNCHANGED <<tableClient, entBuilt, calls>>
          /\ Throws(ConnError)
     ELSE /\ tableClientInstance
          /\ calls' = <<"deleteEntity">>
          /\ Awaits("awaitDeleteEntity")
  /\ UNCHANGED <<argTable, argEntity, sent, pageSize, cursor, entities>>
  /\ UNCHANGED <<outside, backendVars, ghostVars>>

DeleteResume ==
  /\ pc = "awaitDeleteEntity"
  /\ \E a \in DeleteEntityAnswers(argPk, argRk) :
       /\ tables' = a.tables /\ rows' = a.rows
       /\ IF a.err = NoError
          THEN Returns(a.result) /\ fresh' = Untouched(argPk, argRk)
          ELSE Throws(a.err) /\ UNCHANGED fresh
  /\ UNCHANGED <<op, argTable, argPk, argRk, argEntity, sent, calls, pageSize, cursor, entities>>
  /\ UNCHANGED <<outside, connVars, prevCT>>

\* ---- the caller takes the outcome and issues its next call
Settle ==
  /\ pc = "done"
  /\ op' = "none" /\ pc' = "idle"
  /\ argTable' = "" /\ argPk' = "" /\ argRk' = "" /\ argEntity' = <<>> /\ sent' = <<>>
  /\ calls' = <<>> /\ pageSize' = 0 /\ cursor' = 0 /\ entities' = <<>>
  /\ status' = "none" /\ retval' = [t |-> "none"] /\ thrown' = NoError
  /\ restError' = NoError
  /\ prevCT' = IF op = "createTableIfNotExists" /\ status = "returned" THEN argTable ELSE ""
  /\ UNCHANGED <<outside, connVars, backendVars, fresh>>

Next ==
  \/ \E name \in TableNames : CreateTableIfNotExistsCall(name)
  \/ CreateTableIfNotExistsResume
  \/ \E pk \in PKeys, rk \in RKeys : FindCall(pk, rk)
  \/ FindResume
  \/ FindAllCall
  \/ FindAllPage
  \/ \E e \in KeyedEntities : CreateCall(e)
  \/ CreateProvisioned
  \/ CreateResume
  \/ \E pk \in PKeys, rk \in RKeys, e \in Patches : UpdateCall(pk, rk, e)
  \/ UpdateResume
  \/ \E pk \in PKeys, rk \in RKeys : DeleteCall(pk, rk)
  \/ DeleteResume
  \/ Settle

Spec == Init /\ [][Next]_vars


\* ================================================================ properties
FindEnded == pc = "done" /\ op = "find"
Reported(code) == restError.kind = "RestError" /\ restError.code = code
NotFoundMessage == <<"Error processing entity. Entity not found.">>

\* C1 as stated: find on a key that names no entity returns null, and when
\* getEntity reports ResourceNotFound find raises no classified error.
C1_FindMissingReturnsNull ==
  (FindEnded /\ tableName \in tables /\ ~HasKey(argPk, argRk)
     /\ (restError = NoError \/ Reported("ResourceNotFound")))
    => (status = "returned" /\ retval = Null /\ thrown.kind # "CustomError")

\* C1 amended: when getEntity reports ResourceNotFound, find raises: the
\* CustomError with code ResourceNotFound, the backend's status code and the
\* fixed message when the backend message starts with "{", a plain Error with
\* the backend message otherwise; find returns null only when getEntity
\* answered without raising.
C1_FindMissingRaises ==
  /\ (FindEnded /\ Reported("ResourceNotFound"))
       => /\ status = "threw"
          /\ StartsWithBrace(restError.message)
               => thrown = CustomError(NotFoundMessage, "ResourceNotFound", restError.statusCode)
          /\ ~StartsWithBrace(restError.message)
               => thrown = PlainError(restError.message)
  /\ (FindEnded /\ status = "returned" /\ retval = Null)
       => (restError = NoError /\ ~HasKey(argPk, argRk))

C1_Witness ==
  /\ FindEnded /\ ~HasKey(argPk, argRk) /\ Reported("ResourceNotFound")
  /\ thrown.kind = "CustomError" /\ thrown.code = "ResourceNotFound"

SecondCreateTable == pc = "done" /\ op = "createTableIfNotExists" /\ prevCT = argTable

\* C3 as stated: on the second of two successive createTableIfNotExists calls
\* for one name, the backend's "table already exists" is raised as a
\* CustomError with code TableAlreadyExists whatever the message's shape.
C3_AlwaysCoded ==
  (SecondCreateTable /\ Reported("TableAlreadyExists"))
    => (thrown.kind = "CustomError" /\ thrown.code = "TableAlreadyExists")

\* C3 amended: the second call returns true, or, when the backend reports
\* TableAlreadyExists, raises the CustomError with that code (message built
\* from this.tableName) if the backend message starts with "{" and a plain
\* Error with the backend message if it does not.
C3_CodedWhenJson ==
  /\ (SecondCreateTable /\ status = "returned") => retval = True
  /\ (SecondCreateTable /\ Reported("TableAlreadyExists"))
       => /\ status = "threw"
          /\ StartsWithBrace(restError.message)
               => thrown = CustomError(<<"Error creating table. Table ", tableName,
                                         " already exists.">>,
                                       "TableAlreadyExists", restError.statusCode)
          /\ ~StartsWithBrace(restError.message)
               => thrown = PlainError(restError.message)

C3_Witness ==
  /\ SecondCreateTable /\ Reported("TableAlreadyExists")
  /\ thrown.kind = "CustomError" /\ thrown.code = "TableAlreadyExists"

\* C4: under every interleaving of accessor reads by the operations in
\* flight, each handle is constructed at most once and every read returns
\* the one cached handle.
C4_ConstructedOnce ==
  /\ svcBuilt <= 1 /\ entBuilt <= 1
  /\ \A p \in 1..NumCallers :
       callers[p].got # 0 =>
         callers[p].got = (IF callers[p].which = "service" THEN tableServiceClient
                           ELSE tableClient)

C4_Witness ==
  \E p, q \in 1..NumCallers :
    /\ p # q
    /\ callers[p].pc = "awaiting" /\ callers[q].pc = "awaiting"
    /\ callers[p].which = "service" /\ callers[q].which = "service"
    /\ callers[p].got = callers[q].got /\ callers[p].got # 0
    /\ svcBuilt = 1

UpdateSent == op = "update" /\ calls = <<"updateEntity">>

\* C5: the entity handed to updateEntity has, for each key field, the call
\* argument when the entity passed lacks the field and the entity's own value
\* when it carries it; its other fields are those passed.
C5_KeysInjected ==
  UpdateSent =>
    /\ sent.partitionKey = (IF "partitionKey" \in DOMAIN argEntity
                            THEN argEntity.partitionKey ELSE argPk)
    /\ sent.rowKey = (IF "rowKey" \in DOMAIN argEntity THEN argEntity.rowKey ELSE argRk)
    /\ \A f \in DOMAIN argEntity : sent[f] = argEntity[f]
    /\ DOMAIN sent = DOMAIN argEntity \cup {"partitionKey", "rowKey"}

C5_Witness ==
  /\ UpdateSent /\ DOMAIN argEntity = {"data"}
  /\ sent.partitionKey = argPk /\ sent.rowKey = argRk

\* C6: findAll returns one element per entity of the table, in the listing's
\* order, none twice, whatever the page size; when the listing raises,
\* findAll raises and returns nothing.
C6_FindAllComplete ==
  /\ (pc = "done" /\ op = "findAll" /\ status = "returned") =>
       /\ retval.t = "list"
       /\ Len(retval.v) = Len(rows)
       /\ \A i \in 1..Len(rows) : \A f \in DOMAIN rows[i] : retval.v[i][f] = rows[i][f]
       /\ \A i, j \in 1..Len(retval.v) :
            (retval.v[i].partitionKey = retval.v[j].partitionKey
               /\ retval.v[i].rowKey = retval.v[j].rowKey) => i = j
  /\ (pc = "done" /\ op = "findAll" /\ restError # NoError) =>
       (status = "threw" /\ retval = [t |-> "none"])

C6_Witness ==
  /\ pc = "done" /\ op = "findAll" /\ status = "returned"
  /\ pageSize = 1 /\ Len(rows) = 2 /\ Len(retval.v) = 2

\* C7: find of the key of an entity written by a successful create, with no
\* write to that key since, returns that entity's fields: not null, none missing.
C7_RoundTrip ==
  (FindEnded /\ status = "returned") =>
    \A e \in fresh :
      (e.partitionKey = argPk /\ e.rowKey = argRk) => retval = EntityValue(e)

C7_Witness ==
  /\ FindEnded /\ status = "returned"
  /\ \E e \in fresh : e.partitionKey = argPk /\ e.rowKey = argRk /\ retval = EntityValue(e)

\* the detail message with its line breaks removed
Joined(value) == SelectSeq(value, LAMBDA c : c # NL)

\* the message table of the classifier, the InvalidInput row left open
TableRow(code, name, raw, invalidInput) ==
  CASE code = "TableAlreadyExists" ->
         <<"Error creating table. Table ", name, " already exists.">>
    [] code = "TableNotFound" ->
         <<"Error creating entity. Table ", name, " Not Found. Is it created?">>
    [] code = "ResourceNotFound" -> <<"Error processing entity. Entity not found.">>
    [] code = "InvalidInput" -> invalidInput
    [] code = "TableBeingDeleted" ->
         <<"Error creating entity. Table ", name, " is being deleted. Try again later.">>
    [] code = "EntityAlreadyExists" ->
         <<"Error creating entity. Entity with the same partitionKey and rowKey already exists.">>
    [] OTHER -> raw

Structured == classified.how # "none" /\ StartsWithBrace(restError.message)

\* C8 as stated: a structured error is classified with the backend's code and
\* status code and the message of the table, which for InvalidInput is the
\* concatenation of the lines of the detail message.
C8_TableAsWritten ==
  Structured =>
    /\ classified.how = "return"
    /\ classified.value.kind = "CustomError"
    /\ classified.value.code = restError.code
    /\ classified.value.statusCode = restError.statusCode
    /\ classified.value.message =
         TableRow(restError.code, tableName, restError.message, Joined(restError.value))

\* C8 amended: as stated, except that the InvalidInput message is the fixed
\* text "Error creating entity:" followed by the concatenation of the lines.
C8_TableWithPrefix ==
  Structured =>
    /\ classified.how = "return"
    /\ classified.value.kind = "CustomError"
    /\ classified.value.code = restError.code
    /\ classified.value.statusCode = restError.statusCode
    /\ classified.value.message =
         TableRow(restError.code, tableName, restError.message,
                  <<"Error creating entity:">> \o Joined(restError.value))

C8_Witness ==
  /\ Structured /\ restError.code = "AuthorizationFailure"
  /\ Len(restError.message) > 1
  /\ classified.value.message = restError.message

Contains(s, sub) == \E i \in 0..(Len(s) - Len(sub)) : SubSeq(s, i + 1, i + Len(sub)) = sub
NoBreak(s) == \A i \in 1..Len(s) : s[i] # NL

\* C9: for a structured InvalidInput error whose detail message has three
\* lines, the CustomError's message contains the three lines, joined in order.
C9_ThreeLines ==
  (Structured /\ restError.code = "InvalidInput") =>
    \A i, j \in 1..Len(restError.value) :
      LET v == restError.value
          l1 == SubSeq(v, 1, i - 1)
          l2 == SubSeq(v, i + 1, j - 1)
          l3 == SubSeq(v, j + 1, Len(v))
      IN (i < j /\ v[i] = NL /\ v[j] = NL /\ NoBreak(l1) /\ NoBreak(l2) /\ NoBreak(l3))
           => Contains(classified.value.message, l1 \o l2 \o l3)

C9_Witness ==
  /\ Structured /\ restError.code = "InvalidInput"
  /\ restError.value = <<"a", NL, "b", NL, "b">>
  /\ classified.value.message = <<"Error creating entity:", "a", "b", "b">>

\* C10: with the option set, create calls createTable first and createEntity
\* only after createTable succeeded; when provisioning raises, create ends
\* with that error and no createEntity call; with the option unset, create
\* never calls createTable.
C10_ProvisionFirst ==
  op = "create" =>
    /\ optCreate => calls \in {<<>>, <<"createTable">>, <<"createTable", "createEntity">>}
    /\ ~optCreate => calls \in {<<>>, <<"createEntity">>}
    /\ (optCreate /\ Len(calls) = 2) => tableName \in tables
    /\ (optCreate /\ pc = "done" /\ calls = <<"createTable">>) =>
         (status = "threw" /\ restError.kind = "RestError"
            /\ thrown = handleRestErrors(restError, tableName).value)
    /\ retval # Null

C10_Witness ==
  /\ op = "create" /\ optCreate /\ pc = "done" /\ status = "threw"
  /\ calls = <<"createTable">> /\ restError.kind = "RestError"

====
